---- MODULE Spec2Model ----
(***************************************************************************)
(* MRB Video Downloader API (main.py): the /get_video request handler, the *)
(* format selector and the fetch-transcode pipeline with its temporary     *)
(* workspace, as a state machine over a small set of requests.             *)
(***************************************************************************)
EXTENDS Integers, Sequences, FiniteSets, TLC

\* ---------------------------------------------------------------- bounds
\* Requests the server can hold; Spec runs request 1, the others stay idle.
NumReqs == 2
\* Longest "formats" list the resolver returns.
MaxFormats == 2
\* Names mkdtemp can hand out.
NumDirs == 2
\* Chunks of the artifact file a FileResponse sends.
ArtifactChunks == 2
\* Longest name given to sanitize_filename.
MaxNameLen == 5

Reqs == 1..NumReqs
DirNames == 1..NumDirs

\* Python's None, where a str is expected.
None == "<None>"
\* Python's None, where a dict, a list or a number is expected: an optional
\* value is the empty tuple when absent and a 1-tuple when present.
NoneObj == <<>>
Some(x) == <<x>>

\* ------------------------------------------------------------ URL patterns
\* A URL is scheme + optional "www." + host + path, as SUPPORTED_PATTERNS
\* reads it: ^(https?://)?(www\.)?HOST/.+
URLs ==
    { [scheme |-> "https://", www |-> FALSE, host |-> "twitter.com",   path |-> "/u/status/1"],
      [scheme |-> "",         www |-> TRUE,  host |-> "x.com",         path |-> "/u/status/1"],
      [scheme |-> "https://", www |-> TRUE,  host |-> "tiktok.com",    path |-> "/@u/video/1"],
      [scheme |-> "https://", www |-> FALSE, host |-> "vm.tiktok.com", path |-> "/ZM1"],
      [scheme |-> "https://", www |-> FALSE, host |-> "example.com",   path |-> "/post/1"],
      [scheme |-> "https://", www |-> FALSE, host |-> "twitter.com",   path |-> "/"] }

SUPPORTED_PATTERNS ==
    << [hosts |-> {"twitter.com", "x.com"},            www |-> TRUE],
       [hosts |-> {"tiktok.com"},                      www |-> TRUE],
       [hosts |-> {"vm.tiktok.com", "vt.tiktok.com"},  www |-> FALSE] >>

\* re.match(p, url): optional scheme, optional "www." where the pattern has
\* it, one of the hosts, "/" and at least one more character.
MatchPattern(p, u) ==
    /\ u.scheme \in {"", "http://", "https://"}
    /\ (u.www => p.www)
    /\ u.host \in p.hosts
    /\ u.path \notin {"", "/"}

is_supported(u) ==
    \E i \in 1..Len(SUPPORTED_PATTERNS) : MatchPattern(SUPPORTED_PATTERNS[i], u)

\* ---------------------------------------------------------- format records
\* str.lower() on the protocol tags the resolver produces.
Lower(s) ==
    CASE s = "M3U8" -> "m3u8"
      [] s = "DASH" -> "dash"
      [] s = "HTTPS" -> "https"
      [] OTHER -> s

\* x or "" / x or 0
OrEmpty(s) == IF s = None THEN "" ELSE s
OrZero(n) == IF n = NoneObj THEN 0 ELSE n[1]

\* bool(x) of an optional str
Truthy(s) == s # None /\ s # ""

bad_protocols == {"m3u8", "m3u8_native", "http_dash_segments", "dash"}

\* A muxed progressive stream, and every one-field departure from it.
BaseFormat ==
    [ext |-> "mp4", vcodec |-> "h264", acodec |-> "aac", protocol |-> "https",
     tbr |-> Some(2), url |-> "u_hi"]

FormatPool ==
    {BaseFormat}
    \cup {[BaseFormat EXCEPT !.tbr = Some(1), !.url = "u_lo"]}
    \cup {[BaseFormat EXCEPT !.tbr = NoneObj, !.url = "u_na", !.protocol = None]}
    \cup {[BaseFormat EXCEPT !.ext = e] : e \in {"webm", None}}
    \cup {[BaseFormat EXCEPT !.vcodec = c] : c \in {"none", None}}
    \cup {[BaseFormat EXCEPT !.acodec = c] : c \in {"none", None}}
    \cup {[BaseFormat EXCEPT !.protocol = p] :
             p \in {"m3u8", "M3U8", "m3u8_native", "http_dash_segments", "dash"}}
    \cup {[BaseFormat EXCEPT !.url = u] : u \in {None, ""}}

RECURSIVE SeqsUpTo(_, _)
SeqsUpTo(S, n) ==
    IF n = 0 THEN {<<>>}
    ELSE LET shorter == SeqsUpTo(S, n - 1)
         IN  shorter \cup {Append(s, x) : s \in {t \in shorter : Len(t) = n - 1}, x \in S}

\* What extract_info returns: None, or a dict whose "formats" is absent or
\* a list.
Infos ==
    {[formats |-> NoneObj]}
    \cup {[formats |-> Some(l)] : l \in SeqsUpTo(FormatPool, MaxFormats)}

\* A descriptor without formats, one with a progressive stream and one with
\* a segmented stream only.
FewInfos ==
    { [formats |-> NoneObj],
      [formats |-> Some(<<BaseFormat>>)],
      [formats |-> Some(<<[BaseFormat EXCEPT !.protocol = "m3u8"]>>)] }

Descriptors(which) == IF which = "any" THEN Infos ELSE FewInfos

\* info.get("formats") or []
FormatsOf(info) == IF info.formats = NoneObj THEN <<>> ELSE info.formats[1]

\* Variant of the filter that compares the protocol as written, without
\* lower().
IsMp4Candidate_NoLower(f) ==
    /\ f.ext = "mp4"
    /\ f.vcodec \notin {None, "none"}
    /\ f.acodec \notin {None, "none"}
    /\ OrEmpty(f.protocol) \notin bad_protocols

\* The filter of pick_best_mp4_format.
IsMp4Candidate(f) ==
    /\ f.ext = "mp4"
    /\ f.vcodec \notin {None, "none"}
    /\ f.acodec \notin {None, "none"}
    /\ Lower(OrEmpty(f.protocol)) \notin bad_protocols

RECURSIVE FilterSeq(_)
FilterSeq(s) ==
    IF s = <<>> THEN <<>>
    ELSE IF IsMp4Candidate(Head(s)) THEN <<Head(s)>> \o FilterSeq(Tail(s))
    ELSE FilterSeq(Tail(s))

\* Variant of the sort that puts an element behind the later ones of equal
\* key.
RECURSIVE InsertDesc_TiesLast(_, _)
InsertDesc_TiesLast(x, s) ==
    IF s = <<>> THEN <<x>>
    ELSE IF OrZero(Head(s).tbr) >= OrZero(x.tbr)
         THEN <<Head(s)>> \o InsertDesc_TiesLast(x, Tail(s))
    ELSE <<x>> \o s

\* sorted(..., key=tbr or 0, reverse=True): a stable sort, equal keys keep
\* their input order. InsertDesc puts x, which precedes all of s in the
\* input, in front of the first element whose key is not greater.
RECURSIVE InsertDesc(_, _)
InsertDesc(x, s) ==
    IF s = <<>> THEN <<x>>
    ELSE IF OrZero(Head(s).tbr) > OrZero(x.tbr) THEN <<Head(s)>> \o InsertDesc(x, Tail(s))
    ELSE <<x>> \o s

RECURSIVE SortedDesc(_)
SortedDesc(s) ==
    IF s = <<>> THEN <<>>
    ELSE InsertDesc(Head(s), SortedDesc(Tail(s)))

\* Variant of the selector that ranks every format, without the filter.
pick_best_unfiltered(info) ==
    LET all == FormatsOf(info)
    IN  IF all # <<>> THEN Some(SortedDesc(all)[1]) ELSE NoneObj

pick_best_mp4_format(info) ==
    LET mp4s == FilterSeq(FormatsOf(info))
    IN  IF mp4s # <<>> THEN Some(SortedDesc(mp4s)[1]) ELSE NoneObj

\* ------------------------------------------------------ sanitize_filename
\* A name is a sequence of characters. The characters names are drawn from:
\* letters and a digit, the dot, two kinds of whitespace, a forbidden
\* character, an accented letter and a character with no ASCII part.
NameChars == {"m", "p", "4", ".", " ", "\t", "/", "é", "日"}

Mp4Ext == <<"m", "p", "4">>
Exts == {Mp4Ext}

Names == SeqsUpTo(NameChars, MaxNameLen)

\* unicodedata.normalize("NFKD", c).encode("ascii", "ignore").decode("ascii"):
\* the accent of a decomposed letter and every other non-ASCII code point
\* are dropped.
AsciiOf(c) ==
    CASE c = "é" -> <<"e">>
      [] c = "日" -> <<>>
      [] OTHER -> <<c>>

RECURSIVE ToAscii(_)
ToAscii(s) == IF s = <<>> THEN <<>> ELSE AsciiOf(Head(s)) \o ToAscii(Tail(s))

\* [\\/:*?"<>|] and \s
ForbiddenChars == {"\\", "/", ":", "*", "?", "\"", "<", ">", "|"}
Whitespace == {" ", "\t", "\n", "\r", "\f"}

RECURSIVE DropWhile(_, _)
DropWhile(s, C) ==
    IF s # <<>> /\ Head(s) \in C THEN DropWhile(Tail(s), C) ELSE s

\* re.sub(r"[C]+", " ", s): every maximal run of characters of C becomes
\* one space.
RECURSIVE SubRuns(_, _)
SubRuns(s, C) ==
    IF s = <<>> THEN <<>>
    ELSE IF Head(s) \in C THEN <<" ">> \o SubRuns(DropWhile(Tail(s), C), C)
    ELSE <<Head(s)>> \o SubRuns(Tail(s), C)

RECURSIVE StripRight(_)
StripRight(s) ==
    IF s # <<>> /\ s[Len(s)] \in Whitespace THEN StripRight(SubSeq(s, 1, Len(s) - 1))
    ELSE s

\* str.strip()
Strip(s) == StripRight(DropWhile(s, Whitespace))

\* The name before the extension is put on: lines 66-70.
CleanName(name) ==
    LET a == ToAscii(name)
        b == Strip(SubRuns(a, ForbiddenChars))
        c == SubRuns(b, Whitespace)
    IN  IF c = <<>> THEN <<"v", "i", "d", "e", "o">> ELSE c

\* return f"{name}.{ext}"
sanitize_filename(name, ext) == CleanName(name) \o <<".">> \o ext

\* ------------------------------------------------------------------ state
VARIABLES
    pc,          \* where each request's handler stands
    url,         \* link_request.url.strip()
    info,        \* the probe's descriptor
    fmt,         \* pick_best_mp4_format(info)
    proxyGets,   \* client.stream("GET", ...) calls made
    getUrl,      \* the URL of the last proxy GET
    upOutcome,   \* how the upstream answered the proxy GET
    upStatus,    \* the upstream's status code
    upOpen,      \* the upstream response r is open (inside its async with)
    status,      \* the status of the response the caller gets
    respKind,    \* which response object the handler produced
    upBytes,     \* upstream chunks written to the caller
    sent,        \* artifact chunks handed to send
    connected,   \* the caller is still connected
    ending,      \* how the request ended
    ffmpeg,      \* what ffmpeg_available() answered
    downloads,   \* extract_info(download=True) calls made
    ws,          \* tmpdir
    cleanups,    \* _cleanup_dir calls made for this request
    fs,          \* the temporary directories that exist
    files,       \* the .mp4 files each directory holds
    expandGets,  \* GETs made to expand a short link before the probe
    probeUrl,    \* the URL handed to extract_info
    resolver,    \* which descriptors extract_info can return: "any" of
                 \* Infos, or the "few" of FewInfos
    sanIn,       \* a name given to sanitize_filename
    sanExt,      \* its ext argument
    sanOut       \* what sanitize_filename returned: for the name, then for
                 \* its own result

vars ==
    <<pc, url, info, fmt, proxyGets, getUrl, upOutcome, upStatus, upOpen, status,
      respKind, upBytes, sent, connected, ending, ffmpeg, downloads, ws, cleanups,
      fs, files, expandGets, probeUrl, resolver, sanIn, sanExt, sanOut>>

sanVars == <<sanIn, sanExt, sanOut>>

\* Status codes the upstream answers the proxy GET with.
UpstreamStatuses == {200, 404, 503}

\* The .mp4 files a download can leave: the one named after the downloaded
\* file, and one under another name.
Mp4Files == {"exact", "other"}

InitCommon ==
    /\ url \in [Reqs -> URLs]
    /\ info = [r \in Reqs |-> NoneObj]
    /\ fmt = [r \in Reqs |-> NoneObj]
    /\ proxyGets = [r \in Reqs |-> 0]
    /\ getUrl = [r \in Reqs |-> None]
    /\ upOutcome = [r \in Reqs |-> "none"]
    /\ upStatus = [r \in Reqs |-> 0]
    /\ upOpen = [r \in Reqs |-> FALSE]
    /\ status = [r \in Reqs |-> 0]
    /\ respKind = [r \in Reqs |-> "none"]
    /\ upBytes = [r \in Reqs |-> 0]
    /\ sent = [r \in Reqs |-> 0]
    /\ connected = [r \in Reqs |-> TRUE]
    /\ ending = [r \in Reqs |-> "none"]
    /\ ffmpeg = [r \in Reqs |-> "unchecked"]
    /\ downloads = [r \in Reqs |-> 0]
    /\ ws = [r \in Reqs |-> NoneObj]
    /\ cleanups = [r \in Reqs |-> 0]
    /\ fs = {}
    /\ files = [d \in DirNames |-> {}]
    /\ expandGets = [r \in Reqs |-> 0]
    /\ probeUrl = [r \in Reqs |-> NoneObj]

\* No name is being sanitized.
SanIdle ==
    /\ sanIn = <<>>
    /\ sanExt = Mp4Ext
    /\ sanOut = <<>>

\* One request in flight, with any URL and any descriptor.
Init ==
    /\ InitCommon
    /\ pc = [r \in Reqs |-> IF r = 1 THEN "classify" ELSE "idle"]
    /\ \A r \in Reqs : r # 1 => url[r] = url[1]
    /\ resolver = "any"
    /\ SanIdle

\* ----------------------------------------------------------------- helpers
\* raise HTTPException(status_code=code): the handler ends with that status.
RaiseHTTP(r, code) ==
    /\ status' = [status EXCEPT ![r] = code]
    /\ respKind' = [respKind EXCEPT ![r] = "error"]
    /\ ending' = [ending EXCEPT ![r] = "error"]
    /\ pc' = [pc EXCEPT ![r] = "done"]

\* _cleanup_dir(path), called for request r: shutil.rmtree(path).
CleanupDir(r, d) ==
    /\ fs' = fs \ {d}
    /\ files' = [files EXCEPT ![d] = {}]
    /\ cleanups' = [cleanups EXCEPT ![r] = @ + 1]

\* Variant of the handler without the raise_for_status() call.
RaiseForStatus_Never(s) == FALSE

\* Response.raise_for_status(), on the final status after redirects.
RaiseForStatus(s) == s >= 400

\* Variant of the planner's test with the URL test negated.
PlanProxy_Inverted(f) == f # NoneObj /\ ~Truthy(f[1].url)

\* if fmt and fmt.get("url")
PlanProxy(f) == f # NoneObj /\ Truthy(f[1].url)

\* ------------------------------------------------------------- get_video
\* Variant of the handler without the is_supported test.
Classify_NoCheck(r) ==
    /\ pc[r] = "classify"
    /\ pc' = [pc EXCEPT ![r] = "probe"]
    /\ UNCHANGED <<url, expandGets, probeUrl, resolver, sanVars, info, fmt, proxyGets, getUrl, upOutcome, upStatus, upOpen,
                   status, respKind, upBytes, sent, connected, ending, ffmpeg,
                   downloads, ws, cleanups, fs, files>>

\* if not is_supported(url): raise HTTPException(400)
Classify(r) ==
    /\ pc[r] = "classify"
    /\ IF is_supported(url[r])
       THEN /\ pc' = [pc EXCEPT ![r] = "probe"]
            /\ UNCHANGED <<status, respKind, ending>>
       ELSE RaiseHTTP(r, 400)
    /\ UNCHANGED <<url, expandGets, probeUrl, resolver, sanVars, info, fmt, proxyGets, getUrl, upOutcome, upStatus, upOpen,
                   upBytes, sent, connected, ffmpeg, downloads, ws, cleanups, fs, files>>

\* Variant of the handler that swallows the probe's failure and goes on to
\* the download.
ProbeFails_Continue(r) ==
    /\ pc[r] = "probe"
    /\ probeUrl' = [probeUrl EXCEPT ![r] = Some(url[r])]
    /\ pc' = [pc EXCEPT ![r] = "ffmpeg"]
    /\ UNCHANGED <<url, expandGets, resolver, sanVars, info, fmt, proxyGets, getUrl,
                   upOutcome, upStatus, upOpen, status, respKind, upBytes, sent,
                   connected, ending, ffmpeg, downloads, ws, cleanups, fs, files>>

\* extract_info(url, download=False): raises, returns nothing, or returns
\* the descriptor.
ProbeFails(r) ==
    /\ pc[r] = "probe"
    /\ probeUrl' = [probeUrl EXCEPT ![r] = Some(url[r])]
    /\ RaiseHTTP(r, 400)
    /\ UNCHANGED <<url, expandGets, resolver, sanVars, info, fmt, proxyGets, getUrl, upOutcome, upStatus, upOpen,
                   upBytes, sent, connected, ffmpeg, downloads, ws, cleanups, fs, files>>

ProbeOk(r) ==
    /\ pc[r] = "probe"
    /\ probeUrl' = [probeUrl EXCEPT ![r] = Some(url[r])]
    /\ \E i \in Descriptors(resolver) : info' = [info EXCEPT ![r] = Some(i)]
    /\ pc' = [pc EXCEPT ![r] = "select"]
    /\ UNCHANGED <<url, expandGets, resolver, sanVars, fmt, proxyGets, getUrl, upOutcome, upStatus, upOpen, status,
                   respKind, upBytes, sent, connected, ending, ffmpeg, downloads, ws,
                   cleanups, fs, files>>

\* fmt = pick_best_mp4_format(info); if fmt and fmt.get("url"): proxy,
\* otherwise straight to download_and_convert_with_ytdlp.
Select(r) ==
    /\ pc[r] = "select"
    /\ LET f == pick_best_mp4_format(info[r][1])
       IN  /\ fmt' = [fmt EXCEPT ![r] = f]
           /\ pc' = [pc EXCEPT ![r] = IF PlanProxy(f) THEN "proxy" ELSE "ffmpeg"]
    /\ UNCHANGED <<url, expandGets, probeUrl, resolver, sanVars, info, proxyGets, getUrl, upOutcome, upStatus, upOpen, status,
                   respKind, upBytes, sent, connected, ending, ffmpeg, downloads, ws,
                   cleanups, fs, files>>

\* Variant of the except branch that tries the proxy GET again.
ProxyConnectError_Retry(r) ==
    /\ pc[r] = "proxy"
    /\ proxyGets' = [proxyGets EXCEPT ![r] = @ + 1]
    /\ getUrl' = [getUrl EXCEPT ![r] = fmt[r][1].url]
    /\ upOutcome' = [upOutcome EXCEPT ![r] = "connect_error"]
    /\ UNCHANGED <<pc, url, expandGets, probeUrl, resolver, sanVars, info, fmt, upStatus, upOpen, status, respKind, upBytes, sent,
                   connected, ending, ffmpeg, downloads, ws, cleanups, fs, files>>

\* client.stream("GET", fmt["url"]): a connect-time httpx.HTTPError is
\* caught and the handler goes on to the download ...
ProxyConnectError(r) ==
    /\ pc[r] = "proxy"
    /\ proxyGets' = [proxyGets EXCEPT ![r] = @ + 1]
    /\ getUrl' = [getUrl EXCEPT ![r] = fmt[r][1].url]
    /\ upOutcome' = [upOutcome EXCEPT ![r] = "connect_error"]
    /\ pc' = [pc EXCEPT ![r] = "ffmpeg"]
    /\ UNCHANGED <<url, expandGets, probeUrl, resolver, sanVars, info, fmt, upStatus, upOpen, status, respKind, upBytes, sent,
                   connected, ending, ffmpeg, downloads, ws, cleanups, fs, files>>

\* ... or the upstream answers and r is open inside its async with.
ProxyGet(r) ==
    /\ pc[r] = "proxy"
    /\ proxyGets' = [proxyGets EXCEPT ![r] = @ + 1]
    /\ getUrl' = [getUrl EXCEPT ![r] = fmt[r][1].url]
    /\ upOutcome' = [upOutcome EXCEPT ![r] = "answered"]
    /\ \E s \in UpstreamStatuses : upStatus' = [upStatus EXCEPT ![r] = s]
    /\ upOpen' = [upOpen EXCEPT ![r] = TRUE]
    /\ pc' = [pc EXCEPT ![r] = "proxy_check"]
    /\ UNCHANGED <<url, expandGets, probeUrl, resolver, sanVars, info, fmt, status, respKind, upBytes, sent, connected, ending,
                   ffmpeg, downloads, ws, cleanups, fs, files>>

\* r.raise_for_status(), then return StreamingResponse(r.aiter_bytes()).
\* Either way the async with blocks are left, which closes r and the client.
ProxyCheck(r) ==
    /\ pc[r] = "proxy_check"
    /\ upOpen' = [upOpen EXCEPT ![r] = FALSE]
    /\ IF RaiseForStatus(upStatus[r])
       THEN /\ pc' = [pc EXCEPT ![r] = "ffmpeg"]
            /\ UNCHANGED respKind
       ELSE /\ respKind' = [respKind EXCEPT ![r] = "proxy"]
            /\ pc' = [pc EXCEPT ![r] = "proxy_start"]
    /\ UNCHANGED <<url, expandGets, probeUrl, resolver, sanVars, info, fmt, proxyGets, getUrl, upOutcome, upStatus, status,
                   upBytes, sent, connected, ending, ffmpeg, downloads, ws, cleanups,
                   fs, files>>

\* The server starts the StreamingResponse: status line and headers.
ProxySendStart(r) ==
    /\ pc[r] = "proxy_start"
    /\ status' = [status EXCEPT ![r] = 200]
    /\ pc' = [pc EXCEPT ![r] = "proxy_body"]
    /\ UNCHANGED <<url, expandGets, probeUrl, resolver, sanVars, info, fmt, proxyGets, getUrl, upOutcome, upStatus, upOpen,
                   respKind, upBytes, sent, connected, ending, ffmpeg, downloads, ws,
                   cleanups, fs, files>>

\* Variant of the transfer that, on the read error, falls back to the
\* download instead of aborting.
ProxyReadChunk_Fallback(r) ==
    /\ pc[r] = "proxy_body"
    /\ pc' = [pc EXCEPT ![r] = "ffmpeg"]
    /\ UNCHANGED <<url, expandGets, probeUrl, resolver, sanVars, info, fmt, proxyGets, getUrl, upOutcome, upStatus, upOpen,
                   status, respKind, upBytes, sent, connected, ending, ffmpeg,
                   downloads, ws, cleanups, fs, files>>

\* The server iterates r.aiter_bytes(): a chunk of an open response is
\* written to the caller; a closed response raises StreamClosed and the
\* transfer is aborted.
ProxyReadChunk(r) ==
    /\ pc[r] = "proxy_body"
    /\ IF upOpen[r]
       THEN /\ upBytes' = [upBytes EXCEPT ![r] = @ + 1]
            /\ IF upBytes[r] + 1 >= ArtifactChunks
               THEN /\ ending' = [ending EXCEPT ![r] = "complete"]
                    /\ pc' = [pc EXCEPT ![r] = "done"]
               ELSE UNCHANGED <<ending, pc>>
       ELSE /\ ending' = [ending EXCEPT ![r] = "aborted"]
            /\ pc' = [pc EXCEPT ![r] = "done"]
            /\ UNCHANGED upBytes
    /\ UNCHANGED <<url, expandGets, probeUrl, resolver, sanVars, info, fmt, proxyGets, getUrl, upOutcome, upStatus, upOpen,
                   status, respKind, sent, connected, ffmpeg, downloads, ws, cleanups,
                   fs, files>>

\* ------------------------------------------- download_and_convert_with_ytdlp
\* Variant of the pipeline that looks for ffmpeg after mkdtemp.
FfmpegMissing_AfterAlloc(r) ==
    /\ pc[r] = "ffmpeg"
    /\ ffmpeg' = [ffmpeg EXCEPT ![r] = "missing"]
    /\ \E d \in DirNames \ fs :
          /\ fs' = fs \cup {d}
          /\ files' = [files EXCEPT ![d] = {}]
          /\ ws' = [ws EXCEPT ![r] = Some(d)]
    /\ RaiseHTTP(r, 500)
    /\ UNCHANGED <<url, expandGets, probeUrl, resolver, sanVars, info, fmt, proxyGets, getUrl, upOutcome, upStatus, upOpen,
                   upBytes, sent, connected, downloads, cleanups>>

\* if not ffmpeg_available(): raise HTTPException(500)
FfmpegMissing(r) ==
    /\ pc[r] = "ffmpeg"
    /\ ffmpeg' = [ffmpeg EXCEPT ![r] = "missing"]
    /\ RaiseHTTP(r, 500)
    /\ UNCHANGED <<url, expandGets, probeUrl, resolver, sanVars, info, fmt, proxyGets, getUrl, upOutcome, upStatus, upOpen,
                   upBytes, sent, connected, downloads, ws, cleanups, fs, files>>

FfmpegFound(r) ==
    /\ pc[r] = "ffmpeg"
    /\ ffmpeg' = [ffmpeg EXCEPT ![r] = "available"]
    /\ pc' = [pc EXCEPT ![r] = "mkdtemp"]
    /\ UNCHANGED <<url, expandGets, probeUrl, resolver, sanVars, info, fmt, proxyGets, getUrl, upOutcome, upStatus, upOpen,
                   status, respKind, upBytes, sent, connected, ending, downloads, ws,
                   cleanups, fs, files>>

\* Variant of the pipeline that works in a directory that may exist
\* already, as the shared tempfile.gettempdir() of _build_ytdlp_opts would.
Mkdtemp_Shared(r) ==
    /\ pc[r] = "mkdtemp"
    /\ \E d \in DirNames :
          /\ fs' = fs \cup {d}
          /\ ws' = [ws EXCEPT ![r] = Some(d)]
    /\ pc' = [pc EXCEPT ![r] = "download"]
    /\ UNCHANGED <<url, expandGets, probeUrl, resolver, sanVars, info, fmt, proxyGets,
                   getUrl, upOutcome, upStatus, upOpen, status, respKind, upBytes, sent,
                   connected, ending, ffmpeg, downloads, cleanups, files>>

\* tmpdir = tempfile.mkdtemp(prefix="mrb_"): a directory that did not exist.
Mkdtemp(r) ==
    /\ pc[r] = "mkdtemp"
    /\ \E d \in DirNames \ fs :
          /\ fs' = fs \cup {d}
          /\ files' = [files EXCEPT ![d] = {}]
          /\ ws' = [ws EXCEPT ![r] = Some(d)]
    /\ pc' = [pc EXCEPT ![r] = "download"]
    /\ UNCHANGED <<url, expandGets, probeUrl, resolver, sanVars, info, fmt, proxyGets, getUrl, upOutcome, upStatus, upOpen,
                   status, respKind, upBytes, sent, connected, ending, ffmpeg,
                   downloads, cleanups>>

\* ydl.extract_info(url, download=True) / ydl.prepare_filename(info) raises,
\* whatever it has written so far ...
DownloadRaises(r) ==
    /\ pc[r] = "download"
    /\ downloads' = [downloads EXCEPT ![r] = @ + 1]
    /\ \E left \in SUBSET Mp4Files : files' = [files EXCEPT ![ws[r][1]] = left]
    /\ pc' = [pc EXCEPT ![r] = "except"]
    /\ UNCHANGED <<url, expandGets, probeUrl, resolver, sanVars, info, fmt, proxyGets, getUrl, upOutcome, upStatus, upOpen,
                   status, respKind, upBytes, sent, connected, ending, ffmpeg, ws,
                   cleanups, fs>>

\* ... or returns, having written some .mp4 files into tmpdir, or none.
DownloadOk(r) ==
    /\ pc[r] = "download"
    /\ downloads' = [downloads EXCEPT ![r] = @ + 1]
    /\ \E left \in SUBSET Mp4Files : files' = [files EXCEPT ![ws[r][1]] = left]
    /\ pc' = [pc EXCEPT ![r] = "resolve"]
    /\ UNCHANGED <<url, expandGets, probeUrl, resolver, sanVars, info, fmt, proxyGets, getUrl, upOutcome, upStatus, upOpen,
                   status, respKind, upBytes, sent, connected, ending, ffmpeg, ws,
                   cleanups, fs>>

\* os.path.exists(final_path), final_path being the downloaded file's
\* basename with .mp4 in tmpdir.
FinalPathExists(r) == "exact" \in files[ws[r][1]]

\* if not os.path.exists(final_path): raise FileNotFoundError; else return
\* final_path, final_name, tmpdir.
Resolve(r) ==
    /\ pc[r] = "resolve"
    /\ pc' = [pc EXCEPT ![r] = IF FinalPathExists(r) THEN "respond" ELSE "except"]
    /\ UNCHANGED <<url, expandGets, probeUrl, resolver, sanVars, info, fmt, proxyGets, getUrl, upOutcome, upStatus, upOpen,
                   status, respKind, upBytes, sent, connected, ending, ffmpeg,
                   downloads, ws, cleanups, fs, files>>

\* Variant of the except handler without the _cleanup_dir call.
ExceptCleanup_Skip(r) ==
    /\ pc[r] = "except"
    /\ pc' = [pc EXCEPT ![r] = "raise500"]
    /\ UNCHANGED <<url, expandGets, probeUrl, resolver, sanVars, info, fmt, proxyGets, getUrl, upOutcome, upStatus, upOpen,
                   status, respKind, upBytes, sent, connected, ending, ffmpeg,
                   downloads, ws, cleanups, fs, files>>

\* except Exception: _cleanup_dir(tmpdir) ...
ExceptCleanup(r) ==
    /\ pc[r] = "except"
    /\ CleanupDir(r, ws[r][1])
    /\ pc' = [pc EXCEPT ![r] = "raise500"]
    /\ UNCHANGED <<url, expandGets, probeUrl, resolver, sanVars, info, fmt, proxyGets, getUrl, upOutcome, upStatus, upOpen,
                   status, respKind, upBytes, sent, connected, ending, ffmpeg,
                   downloads, ws>>

\* ... raise HTTPException(status_code=500)
ExceptRaise(r) ==
    /\ pc[r] = "raise500"
    /\ RaiseHTTP(r, 500)
    /\ UNCHANGED <<url, expandGets, probeUrl, resolver, sanVars, info, fmt, proxyGets, getUrl, upOutcome, upStatus, upOpen,
                   upBytes, sent, connected, ffmpeg, downloads, ws, cleanups, fs, files>>

\* ---------------------------------------------------- the FileResponse
\* Variant of the handler that calls _cleanup_dir(tmpdir) itself before it
\* returns the FileResponse.
ReturnFileResponse_CleanupNow(r) ==
    /\ pc[r] = "respond"
    /\ CleanupDir(r, ws[r][1])
    /\ respKind' = [respKind EXCEPT ![r] = "file"]
    /\ pc' = [pc EXCEPT ![r] = "file_start"]
    /\ UNCHANGED <<url, expandGets, probeUrl, resolver, sanVars, info, fmt, proxyGets, getUrl, upOutcome, upStatus, upOpen,
                   status, upBytes, sent, connected, ending, ffmpeg, downloads, ws>>

\* task = BackgroundTask(_cleanup_dir, tmpdir)
\* return FileResponse(path=final_path, ..., background=task)
ReturnFileResponse(r) ==
    /\ pc[r] = "respond"
    /\ respKind' = [respKind EXCEPT ![r] = "file"]
    /\ pc' = [pc EXCEPT ![r] = "file_start"]
    /\ UNCHANGED <<url, expandGets, probeUrl, resolver, sanVars, info, fmt, proxyGets, getUrl, upOutcome, upStatus, upOpen,
                   status, upBytes, sent, connected, ending, ffmpeg, downloads, ws,
                   cleanups, fs, files>>

\* The server starts the FileResponse: status line and headers.
FileSendStart(r) ==
    /\ pc[r] = "file_start"
    /\ status' = [status EXCEPT ![r] = 200]
    /\ pc' = [pc EXCEPT ![r] = "file_body"]
    /\ UNCHANGED <<url, expandGets, probeUrl, resolver, sanVars, info, fmt, proxyGets, getUrl, upOutcome, upStatus, upOpen,
                   respKind, upBytes, sent, connected, ending, ffmpeg, downloads, ws,
                   cleanups, fs, files>>

\* The next chunk of the file is handed to send. With the caller gone, a
\* server whose send returns silently lets the loop run on to the end.
FileSendChunk(r) ==
    /\ pc[r] = "file_body"
    /\ sent' = [sent EXCEPT ![r] = @ + 1]
    /\ pc' = [pc EXCEPT ![r] = IF sent[r] + 1 >= ArtifactChunks THEN "background" ELSE @]
    /\ UNCHANGED <<url, expandGets, probeUrl, resolver, sanVars, info, fmt, proxyGets, getUrl, upOutcome, upStatus, upOpen,
                   status, respKind, upBytes, connected, ending, ffmpeg, downloads, ws,
                   cleanups, fs, files>>

\* With the caller gone, a server whose send raises ends the response
\* there: the statements after the send loop, the background task among
\* them, are not reached.
FileSendRaises(r) ==
    /\ pc[r] = "file_body"
    /\ ~connected[r]
    /\ ending' = [ending EXCEPT ![r] = "aborted"]
    /\ pc' = [pc EXCEPT ![r] = "done"]
    /\ UNCHANGED <<url, expandGets, probeUrl, resolver, sanVars, info, fmt, proxyGets, getUrl, upOutcome, upStatus, upOpen,
                   status, respKind, upBytes, sent, connected, ffmpeg, downloads, ws,
                   cleanups, fs, files>>

\* The caller disconnects while the body is being transmitted.
ClientDisconnect(r) ==
    /\ pc[r] = "file_body"
    /\ connected[r]
    /\ connected' = [connected EXCEPT ![r] = FALSE]
    /\ UNCHANGED <<pc, url, expandGets, probeUrl, resolver, sanVars, info, fmt, proxyGets, getUrl, upOutcome, upStatus, upOpen,
                   status, respKind, upBytes, sent, ending, ffmpeg, downloads, ws,
                   cleanups, fs, files>>

\* After the body: the response's background task, _cleanup_dir(tmpdir).
RunBackground(r) ==
    /\ pc[r] = "background"
    /\ CleanupDir(r, ws[r][1])
    /\ ending' = [ending EXCEPT ![r] = "complete"]
    /\ pc' = [pc EXCEPT ![r] = "done"]
    /\ UNCHANGED <<url, expandGets, probeUrl, resolver, sanVars, info, fmt, proxyGets, getUrl, upOutcome, upStatus, upOpen,
                   status, respKind, upBytes, sent, connected, ffmpeg, downloads, ws>>

\* ------------------------------------------------------------ specification
Next ==
    \E r \in Reqs :
        \/ Classify(r)
        \/ ProbeFails(r)
        \/ ProbeOk(r)
        \/ Select(r)
        \/ ProxyConnectError(r)
        \/ ProxyGet(r)
        \/ ProxyCheck(r)
        \/ ProxySendStart(r)
        \/ ProxyReadChunk(r)
        \/ FfmpegMissing(r)
        \/ FfmpegFound(r)
        \/ Mkdtemp(r)
        \/ DownloadRaises(r)
        \/ DownloadOk(r)
        \/ Resolve(r)
        \/ ExceptCleanup(r)
        \/ ExceptRaise(r)
        \/ ReturnFileResponse(r)
        \/ FileSendStart(r)
        \/ FileSendChunk(r)
        \/ FileSendRaises(r)
        \/ ClientDisconnect(r)
        \/ RunBackground(r)

Spec == Init /\ [][Next]_vars

\* Two requests in flight at once, both for one supported URL, the resolver
\* answering each with one of a few descriptors.
InitConc ==
    /\ InitCommon
    /\ pc = [r \in Reqs |-> IF r \in {1, 2} THEN "classify" ELSE "idle"]
    /\ is_supported(url[1])
    /\ \A r \in Reqs : url[r] = url[1]
    /\ resolver = "few"
    /\ SanIdle

SpecConc == InitConc /\ [][Next]_vars

\* sanitize_filename on its own: any name, then the call on the name and the
\* call on that call's result. No request runs.
InitSan ==
    /\ InitCommon
    /\ pc = [r \in Reqs |-> "idle"]
    /\ \A r \in Reqs : url[r].host = "example.com"
    /\ resolver = "few"
    /\ sanIn \in Names
    /\ sanExt \in Exts
    /\ sanOut = <<>>

SanitizeCall ==
    /\ Len(sanOut) < 2
    /\ sanOut' = Append(sanOut,
                        sanitize_filename(IF sanOut = <<>> THEN sanIn ELSE sanOut[Len(sanOut)],
                                          sanExt))
    /\ UNCHANGED <<pc, url, info, fmt, proxyGets, getUrl, upOutcome, upStatus, upOpen,
                   status, respKind, upBytes, sent, connected, ending, ffmpeg, downloads,
                   ws, cleanups, fs, files, expandGets, probeUrl, resolver, sanIn, sanExt>>

NextSan == SanitizeCall

SpecSan == InitSan /\ [][NextSan]_vars

\* ------------------------------------------------------------------ claims
\* The handler has run the format selector on a descriptor.
Selected(r) == info[r] # NoneObj /\ pc[r] \notin {"idle", "classify", "probe", "select"}

\* The states of the fetch-transcode path, and the ends it leads to.
FetchPcs ==
    {"ffmpeg", "mkdtemp", "download", "resolve", "except", "raise500", "respond",
     "file_start", "file_body", "background"}

InFetchPath(r) == pc[r] \in FetchPcs \/ (pc[r] = "done" /\ ffmpeg[r] # "unchecked")

\* The segmented protocol tags, in every letter case the resolver produces.
SegmentedAnyCase ==
    {"m3u8", "M3U8", "m3u8_native", "http_dash_segments", "dash", "DASH"}

\* Progressive-playable, as the data model states it.
ProgressivePlayable(f) ==
    /\ f.ext = "mp4"
    /\ f.vcodec # None /\ f.vcodec # "none"
    /\ f.acodec # None /\ f.acodec # "none"
    /\ f.protocol \notin SegmentedAnyCase

ListOf(r) == FormatsOf(info[r][1])

HasProgressive(r) == \E k \in 1..Len(ListOf(r)) : ProgressivePlayable(ListOf(r)[k])

\* The proxy GET of request r failed before a response was returned.
ProxyFailed(r) ==
    \/ upOutcome[r] = "connect_error"
    \/ upOutcome[r] = "answered" /\ upStatus[r] >= 400 /\ pc[r] # "proxy_check"

\* C1: every request that allocated a workspace has had _cleanup_dir called
\* on it exactly once by the time it is finished.
C1_CleanupExactlyOnce ==
    \A r \in Reqs : (pc[r] = "done" /\ ws[r] # NoneObj) => cleanups[r] = 1

\* C2: a request whose caller disconnected while the artifact was being
\* transmitted ends with its workspace cleaned up.
C2_DisconnectStillCleans ==
    \A r \in Reqs :
        (pc[r] = "done" /\ respKind[r] = "file" /\ ~connected[r])
            => (cleanups[r] >= 1 /\ ws[r][1] \notin fs)

\* C3: on the success path the workspace and its artifact exist until the
\* whole body has been handed to send; _cleanup_dir runs only after the
\* last chunk.
C3_CleanupAfterTransmission ==
    \A r \in Reqs :
        respKind[r] = "file" =>
            /\ cleanups[r] > 0 => sent[r] = ArtifactChunks
            /\ sent[r] < ArtifactChunks => (ws[r][1] \in fs /\ FinalPathExists(r))

C3_Witness ==
    \E r \in Reqs : respKind[r] = "file" /\ sent[r] = ArtifactChunks /\ cleanups[r] = 1

\* C4: when the download raises or the output file is missing, the workspace
\* is deleted before the error is raised and the request ends with a 500; no
\* 500 of the pipeline leaves a workspace behind.
C4_FailureCleansBefore500 ==
    \A r \in Reqs :
        /\ pc[r] = "raise500" => (cleanups[r] = 1 /\ ws[r][1] \notin fs)
        /\ (status[r] = 500 /\ ws[r] # NoneObj) => (cleanups[r] = 1 /\ ws[r][1] \notin fs)
        /\ (pc[r] = "done" /\ ws[r] # NoneObj /\ respKind[r] # "file") => status[r] = 500

C4_Witness ==
    \E r \in Reqs :
        /\ pc[r] = "done" /\ status[r] = 500 /\ downloads[r] = 1
        /\ ws[r] # NoneObj /\ ws[r][1] \notin fs

\* C5: a request that finds ffmpeg missing ends with a 500 at once: it has
\* no workspace and has not called the resolver with download enabled.
C5_EngineMissingFailsFast ==
    \A r \in Reqs :
        ffmpeg[r] = "missing" =>
            /\ pc[r] = "done" /\ status[r] = 500
            /\ ws[r] = NoneObj /\ downloads[r] = 0

C5_Witness ==
    \E r \in Reqs : ffmpeg[r] = "missing" /\ status[r] = 500 /\ ListOf(r) # <<>>

\* C6: a descriptor without a progressive-playable stream (an empty or absent
\* list included) selects nothing, and the request takes the fetch-transcode
\* path without a proxy GET.
C6_NoProgressiveGoesToFetch ==
    \A r \in Reqs :
        (Selected(r) /\ ~HasProgressive(r)) =>
            /\ fmt[r] = NoneObj
            /\ proxyGets[r] = 0
            /\ InFetchPath(r)

C6_Witness ==
    \E r \in Reqs :
        /\ Selected(r) /\ ~HasProgressive(r) /\ Len(ListOf(r)) = MaxFormats
        /\ \E k \in 1..Len(ListOf(r)) : Truthy(ListOf(r)[k].url)
        /\ pc[r] = "download"

\* C7: a descriptor with a progressive-playable stream selects a member of
\* its list that is progressive-playable.
C7_SelectsProgressiveMember ==
    \A r \in Reqs :
        (Selected(r) /\ HasProgressive(r)) =>
            /\ fmt[r] # NoneObj
            /\ \E k \in 1..Len(ListOf(r)) : ListOf(r)[k] = fmt[r][1]
            /\ ProgressivePlayable(fmt[r][1])

C7_Witness ==
    \E r \in Reqs :
        /\ Selected(r) /\ HasProgressive(r)
        /\ \E k \in 1..Len(ListOf(r)) :
              /\ ~ProgressivePlayable(ListOf(r)[k])
              /\ OrZero(ListOf(r)[k].tbr) > OrZero(fmt[r][1].tbr)

\* The delivery of a selected stream: the first delivery step is the proxy
\* GET to the stream's URL, the encoder is looked for only after that GET
\* failed, and a non-error answer ends in the proxied response with no
\* encoder check and no workspace.
ProxyDirect(r) ==
    /\ pc[r] = "proxy" \/ (proxyGets[r] = 1 /\ getUrl[r] = fmt[r][1].url)
    /\ ffmpeg[r] # "unchecked" => ProxyFailed(r)
    /\ (upOutcome[r] = "answered" /\ upStatus[r] < 400 /\ pc[r] # "proxy_check") =>
          /\ respKind[r] = "proxy"
          /\ ffmpeg[r] = "unchecked" /\ ws[r] = NoneObj /\ downloads[r] = 0

C9_FallbackWithoutRetry ==
    \A r \in Reqs :
        /\ proxyGets[r] <= 1
        /\ ProxyFailed(r) => InFetchPath(r)

C9_Witness ==
    \E r \in Reqs :
        /\ upOutcome[r] = "connect_error" /\ proxyGets[r] = 1
        /\ pc[r] = "done" /\ respKind[r] = "file"

\* C10: when the upstream answers the proxy GET with a status >= 400, the
\* proxied response is never produced and no upstream chunk reaches the
\* caller; a body the caller gets is the artifact's.
C10_ErrorStatusYieldsNoBody ==
    \A r \in Reqs :
        (upOutcome[r] = "answered" /\ upStatus[r] >= 400) =>
            /\ respKind[r] # "proxy"
            /\ upBytes[r] = 0
            /\ status[r] = 200 => respKind[r] = "file"

C10_Witness ==
    \E r \in Reqs :
        /\ upOutcome[r] = "answered" /\ upStatus[r] >= 400
        /\ respKind[r] = "file" /\ sent[r] = ArtifactChunks

\* C11: once the proxied response is committed, the request never falls back:
\* it has issued its one proxy GET, and it never looks for the encoder,
\* allocates a workspace or calls the download, however the transfer ends.
C11_NoFallbackAfterCommit ==
    \A r \in Reqs :
        respKind[r] = "proxy" =>
            /\ pc[r] \in {"proxy_start", "proxy_body", "done"}
            /\ proxyGets[r] = 1
            /\ ffmpeg[r] = "unchecked" /\ ws[r] = NoneObj /\ downloads[r] = 0

C11_Witness ==
    \E r \in Reqs :
        /\ respKind[r] = "proxy" /\ status[r] = 200
        /\ pc[r] = "done" /\ ending[r] = "aborted"

\* C12: a URL that matches no supported pattern ends the request with a 400
\* and nothing else: no probe, no proxy GET, no encoder check, no workspace.
C12_UnsupportedUrlIs400 ==
    \A r \in Reqs :
        (~is_supported(url[r]) /\ pc[r] \notin {"idle", "classify"}) =>
            /\ pc[r] = "done" /\ status[r] = 400 /\ respKind[r] = "error"
            /\ info[r] = NoneObj /\ fmt[r] = NoneObj
            /\ proxyGets[r] = 0 /\ ffmpeg[r] = "unchecked"
            /\ ws[r] = NoneObj /\ downloads[r] = 0

C12_Witness ==
    \E r \in Reqs : ~is_supported(url[r]) /\ pc[r] = "done" /\ status[r] = 400

\* The probe of request r raised or returned no descriptor.
ProbeFailedReq(r) == probeUrl[r] # NoneObj /\ info[r] = NoneObj

\* C13: a request whose probe raised or returned no descriptor ends with a
\* 400: no selection, no proxy GET, no encoder check, no workspace, no
\* download.
C13_ProbeFailureIs400 ==
    \A r \in Reqs :
        ProbeFailedReq(r) =>
            /\ pc[r] = "done" /\ status[r] = 400 /\ respKind[r] = "error"
            /\ fmt[r] = NoneObj /\ proxyGets[r] = 0
            /\ ffmpeg[r] = "unchecked" /\ ws[r] = NoneObj /\ downloads[r] = 0

C13_Witness ==
    \E r \in Reqs : ProbeFailedReq(r) /\ is_supported(url[r]) /\ status[r] = 400

\* Request r is in flight with a workspace it has not released.
Holding(r) == ws[r] # NoneObj /\ cleanups[r] = 0 /\ pc[r] # "done"

\* C14: two requests in flight never hold the same workspace, and what a
\* request holds stays in place, artifact included, until the request itself
\* releases it: no other request's cleanup removes it.
C14_WorkspacesAreExclusive ==
    /\ \A r1, r2 \in Reqs :
          (r1 # r2 /\ Holding(r1) /\ Holding(r2)) => ws[r1] # ws[r2]
    /\ \A r \in Reqs :
          Holding(r) =>
              /\ ws[r][1] \in fs
              /\ pc[r] \in {"respond", "file_start", "file_body"} => FinalPathExists(r)

C14_Witness ==
    \E r1, r2 \in Reqs :
        /\ r1 # r2
        /\ pc[r1] = "file_body" /\ Holding(r1)
        /\ pc[r2] = "done" /\ ws[r2] # NoneObj /\ cleanups[r2] = 1

\* s ends with the sequence t.
EndsWith(s, t) == Len(s) >= Len(t) /\ SubSeq(s, Len(s) - Len(t) + 1, Len(s)) = t

\* The characters sanitizing leaves nothing of: whitespace, the forbidden
\* ones, and those with no ASCII part.
VanishingChars == {" ", "\t", "/", "日"}

\* C15: sanitizing the result of sanitize_filename, with the same extension,
\* gives that result again.
C15_SanitizeIdempotent == Len(sanOut) = 2 => sanOut[2] = sanOut[1]

\* C16: sanitize_filename returns a non-empty name that ends with ".<ext>"
\* once and not twice, also for a name that already ends with it; a name
\* nothing is left of gives "video.<ext>".
C16_ExtensionExactlyOnce ==
    Len(sanOut) >= 1 =>
        LET out == sanOut[1]
            dotext == <<".">> \o sanExt
            stem == SubSeq(out, 1, Len(out) - Len(dotext))
        IN  /\ out # <<>>
            /\ EndsWith(out, dotext)
            /\ ~EndsWith(stem, dotext)
            /\ (\A k \in 1..Len(sanIn) : sanIn[k] \in VanishingChars) =>
                  out = <<"v", "i", "d", "e", "o">> \o dotext

\* The hosts of the short-link redirectors.
ShortLinkHosts == {"vm.tiktok.com", "vt.tiktok.com"}

\* C17: a supported short-link URL has had exactly one expansion GET by the
\* time it is handed to the resolver.
C17_ShortLinkExpandedOnce ==
    \A r \in Reqs :
        (is_supported(url[r]) /\ url[r].host \in ShortLinkHosts /\ probeUrl[r] # NoneObj)
            => expandGets[r] = 1

\* The first place in the list of request r holding a progressive-playable
\* stream whose bitrate, unknown counted as 0, no other such stream exceeds.
BestIndex(r) ==
    CHOOSE k \in 1..Len(ListOf(r)) :
        /\ ProgressivePlayable(ListOf(r)[k])
        /\ \A j \in 1..Len(ListOf(r)) :
              ProgressivePlayable(ListOf(r)[j]) =>
                  \/ OrZero(ListOf(r)[j].tbr) < OrZero(ListOf(r)[k].tbr)
                  \/ OrZero(ListOf(r)[j].tbr) = OrZero(ListOf(r)[k].tbr) /\ j >= k

\* C18: the selected stream is the progressive-playable stream of greatest
\* bitrate, the first in input order among those that share it.
C18_MaxBitrateFirstInOrder ==
    \A r \in Reqs :
        (Selected(r) /\ HasProgressive(r)) => fmt[r] = Some(ListOf(r)[BestIndex(r)])

C18_Witness ==
    \E r \in Reqs :
        /\ Selected(r) /\ HasProgressive(r)
        /\ \E k \in 1..Len(ListOf(r)) :
              /\ k > BestIndex(r)
              /\ ProgressivePlayable(ListOf(r)[k])
              /\ ListOf(r)[k] # fmt[r][1]
              /\ OrZero(ListOf(r)[k].tbr) = OrZero(fmt[r][1].tbr)

\* C19: the artifact lookup fails only when the workspace holds no .mp4 file
\* at all; with any .mp4 there, the exact name or else the newest, it returns
\* a path.
C19_FailsOnlyWithoutAnyMp4 ==
    [][\A r \in Reqs :
          (pc[r] = "resolve" /\ pc'[r] = "except") => files[ws[r][1]] = {}]_vars

\* C20: while the proxied response is being delivered, the upstream response
\* is open: no chunk is asked of it after it was closed.
C20_UpstreamOpenWhileStreaming ==
    \A r \in Reqs : (respKind[r] = "proxy" /\ pc[r] # "done") => upOpen[r]

====
